---- MODULE Spec2Model ----
(***************************************************************************)
(* load_png of scripts/inspect-tiles.py as a state machine.                *)
(*                                                                         *)
(* The function has two stages separated by the call of the external      *)
(* decompressor (zlib.decompress, line 48):                                *)
(*   SpecChunks  lines 38-48: the chunk-splitting loop, the header read    *)
(*               and the assembly of the compressed stream;                *)
(*   SpecRows    lines 49-65: scanline reconstruction and nibble           *)
(*               unpacking of the decompressed stream.                     *)
(* Python sequences are 0-based, TLA+ sequences 1-based: the Python        *)
(* element s[k] is s[k+1] here, the slice s[a:b] is Slice(s, a, b).        *)
(***************************************************************************)
EXTENDS Integers, Sequences, FiniteSets, TLC

VARIABLES
    layout,      \* the chunks the input file was written from, in file order
    data,        \* line 38: the bytes of the file
    i,           \* line 40: read cursor of the chunk loop
    chunks,      \* line 39: dict, chunk type -> list of payloads
    compressed,  \* line 48: b''.join(chunks['IDAT'])
    W, H,        \* line 47: width and height read from the header
    bitDepth,    \* byte 8 of the header payload; load_png never reads it
    raw,         \* line 48: the decompressed stream
    rb,          \* line 49: bytes per row
    pixels,      \* line 50: the rows unpacked so far
    prev,        \* line 51/64: the previous reconstructed row
    idx,         \* line 52: read cursor into raw
    y,           \* line 53: the row counter of the for loop
    pc,          \* position in load_png
    err          \* the exception that left load_png, or "none"

vars == << layout, data, i, chunks, compressed, W, H, bitDepth, raw,
           rb, pixels, prev, idx, y, pc, err >>

chunkVars == << layout, data, i, chunks, compressed >>
rowVars   == << rb, pixels, prev, idx, y >>

-----------------------------------------------------------------------------
(* Bounds of the model *)

MaxW == 3          \* largest header width
MaxH == 2          \* largest header height
MaxCut == 2        \* most bytes missing from the end of the decompressed stream
MaxChunks == 3     \* most chunks in a file
MaxTrunc == 11     \* most bytes missing from the end of the file

(* Byte values the inputs are built from: the nibbles differ, and
   31 + 240 and 240 + 240 exceed 255. *)
SampleBytes == {31, 240}
FilterTags  == 0..5
BitDepths   == {1, 2, 4, 8}

-----------------------------------------------------------------------------
(* Python helpers *)

Min(a, b) == IF a < b THEN a ELSE b
Max(a, b) == IF a > b THEN a ELSE b

(* s[a:b] for 0 <= a <= b, clipped to the sequence as Python clips it *)
Slice(s, a, b) ==
    LET lo == Min(a, Len(s))
        hi == Min(b, Len(s))
    IN  [k \in 1..(hi - lo) |-> s[lo + k]]

(* [0]*n *)
Zeros(n) == [k \in 1..n |-> 0]

Pow2(n) == 2 ^ n

-----------------------------------------------------------------------------
(* Scanline reconstruction, lines 53-64 *)

(* line 49: rb = (W * 4 + 7) // 8 *)
RowBytes(w) == (w * 4 + 7) \div 8

(* the Sub step with a sum that saturates at 255 instead of wrapping *)
SubAtSaturating(row, x) ==
    [row EXCEPT ![x + 1] = IF row[x + 1] + row[x] > 255 THEN 255
                           ELSE row[x + 1] + row[x]]

(* line 57, the loop body at column x (0-based), in place on row *)
SubAt(row, x) == [row EXCEPT ![x + 1] = (row[x + 1] + row[x]) % 256]

(* line 57: for x in range(1, rb): row[x] = (row[x]+row[x-1])%256.
   Reading row[x] past the end of the list raises IndexError. *)
RECURSIVE SubLoop(_, _, _)
SubLoop(row, x, n) ==
    IF x >= n THEN [ok |-> TRUE, row |-> row]
    ELSE IF x >= Len(row) THEN [ok |-> FALSE, row |-> row]
    ELSE SubLoop(SubAt(row, x), x + 1, n)

(* the Up step without the reduction modulo 256 *)
UpAtUnwrapped(row, pr, x) == [row EXCEPT ![x + 1] = row[x + 1] + pr[x + 1]]

(* line 59, the loop body at column x (0-based) *)
UpAt(row, pr, x) == [row EXCEPT ![x + 1] = (row[x + 1] + pr[x + 1]) % 256]

(* line 59: for x in range(rb): row[x] = (row[x]+prev[x])%256 *)
RECURSIVE UpLoop(_, _, _, _)
UpLoop(row, pr, x, n) ==
    IF x >= n THEN [ok |-> TRUE, row |-> row]
    ELSE IF x >= Len(row) \/ x >= Len(pr) THEN [ok |-> FALSE, row |-> row]
    ELSE UpLoop(UpAt(row, pr, x), pr, x + 1, n)

(* lines 56-59: the if/elif on the filter tag; every other tag falls through
   and leaves the row as read *)
Defilter(ft, row, pr, n) ==
    IF ft = 1 THEN SubLoop(row, 1, n)
    ELSE IF ft = 2 THEN UpLoop(row, pr, 0, n)
    ELSE [ok |-> TRUE, row |-> row]

(* line 62: (b>>4)&0xF and b&0xF *)
HighNibble(b) == (b \div 16) % 16
LowNibble(b)  == b % 16

(* lines 60-62: two entries per byte, high nibble first *)
Unpack(row) ==
    [k \in 1..(2 * Len(row)) |->
        IF k % 2 = 1 THEN HighNibble(row[(k + 1) \div 2])
                     ELSE LowNibble(row[k \div 2])]

(* line 63: px[:W] *)
Clip(px, w) == Slice(px, 0, w)

(* line 54: the filter tag at the cursor; line 55: the row bytes after it *)
TagAt(s, k)        == s[k + 1]
RowAt(s, k, n)     == Slice(s, k + 1, k + 1 + n)

-----------------------------------------------------------------------------
(* The row stage as actions *)

(* lines 49-52 *)
StartRows ==
    /\ pc = "inflated"
    /\ rb' = RowBytes(W)
    /\ pixels' = << >>
    /\ prev' = Zeros(RowBytes(W))
    /\ idx' = 0
    /\ y' = 0
    /\ pc' = "rows"
    /\ UNCHANGED << chunkVars, W, H, bitDepth, raw, err >>

(* lines 53-64, one pass of the for loop that runs to line 64 *)
RowStep ==
    /\ pc = "rows"
    /\ y < H
    /\ idx < Len(raw)
    /\ LET ft  == TagAt(raw, idx)
           row == RowAt(raw, idx, rb)
           res == Defilter(ft, row, prev, rb)
       IN  /\ res.ok
           /\ pixels' = Append(pixels, Clip(Unpack(res.row), W))
           /\ prev' = res.row
    /\ idx' = idx + 1 + rb
    /\ y' = y + 1
    /\ UNCHANGED << chunkVars, W, H, bitDepth, raw, rb, pc, err >>

(* lines 54, 57, 59: an index past the end of raw, row or prev raises *)
RowRaise ==
    /\ pc = "rows"
    /\ y < H
    /\ \/ idx >= Len(raw)
       \/ /\ idx < Len(raw)
          /\ ~ Defilter(TagAt(raw, idx), RowAt(raw, idx, rb), prev, rb).ok
    /\ pc' = "raised"
    /\ err' = "IndexError"
    /\ UNCHANGED << chunkVars, W, H, bitDepth, raw, rowVars >>

(* line 65: return pixels, W, H *)
ReturnGrid ==
    /\ pc = "rows"
    /\ y >= H
    /\ pc' = "done"
    /\ UNCHANGED << chunkVars, W, H, bitDepth, raw, rowVars, err >>

NextRows == StartRows \/ RowStep \/ RowRaise \/ ReturnGrid

-----------------------------------------------------------------------------
(* Inputs of the row stage: what zlib.decompress returned at line 48 *)

(* a stream of h row segments of n bytes each: the tag of row r, then its
   bytes *)
Stream(tags, bytes, h, n) ==
    [p \in 1..(h * (1 + n)) |->
        LET r   == (p - 1) \div (1 + n)
            off == (p - 1) % (1 + n)
        IN  IF off = 0 THEN tags[r + 1] ELSE bytes[r * n + off]]

(* the stream as the decompressor may return it: of the length the header
   asks for (v = 0), v bytes short at its end, or with a byte left over
   (v = -1) *)
Variant(s, v) ==
    IF v = -1 THEN s \o << 0 >> ELSE Slice(s, 0, Max(Len(s) - v, 0))

(* the 2x2 scenario of the specification, section 8 *)
ScenarioRaw == << 0, 10, 20, 1, 5, 5 >>

(* The state at line 49: zlib.decompress has returned raw for a header of
   width W, height H and the declared bit depth. The locals of the
   container stage are dead from here on and are held at rest. *)
InitRows ==
    /\ layout = << >> /\ data = << >> /\ i = 0 /\ chunks = << >>
    /\ compressed = << >>
    /\ \/ /\ W \in 1..MaxW
          /\ H \in 1..MaxH
          /\ bitDepth \in BitDepths
          /\ \E tags \in [1..H -> FilterTags],
                bytes \in [1..(H * RowBytes(W)) -> SampleBytes],
                v \in -1..MaxCut :
                  raw = Variant(Stream(tags, bytes, H, RowBytes(W)), v)
       \/ /\ W = 2 /\ H = 2 /\ bitDepth = 8 /\ raw = ScenarioRaw
    /\ rb = 0 /\ pixels = << >> /\ prev = << >> /\ idx = 0 /\ y = 0
    /\ pc = "inflated"
    /\ err = "none"

SpecRows == InitRows /\ [][NextRows]_vars

-----------------------------------------------------------------------------
(* Properties of the row stage, checked under SpecRows *)

(* ceil(a / b) for b > 0, also for negative a *)
CeilDiv(a, b) == -((-a) \div b)

(* the row stride the header's own bit depth asks for *)
Stride(w, d) == CeilDiv(w * d, 8)

(* where the row most recently completed starts in raw, its tag, its bytes *)
LastStart == idx - (1 + rb)
LastTag   == TagAt(raw, LastStart)
LastInput == RowAt(raw, LastStart, rb)

(* a pass of the row loop that ran to line 64 *)
RowDone == pc = "rows" /\ y' = y + 1

(* C1: for a header with W > 0, H > 0 and bit depth d, a returned grid has
   exactly H rows, every row has exactly W entries, and every entry is in
   [0, 2^d). *)
C1_GridShape ==
    (pc = "done" /\ W > 0 /\ H > 0) =>
        /\ Len(pixels) = H
        /\ \A r \in 1..Len(pixels) :
             /\ Len(pixels[r]) = W
             /\ \A c \in 1..Len(pixels[r]) :
                  pixels[r][c] \in 0..(Pow2(bitDepth) - 1)

(* C2: a row whose filter tag is outside 0..4 is never reconstructed: no
   such row is among the rows already unpacked, the decode having failed
   with UnsupportedFeatureError instead. *)
C2_BadTagRejected ==
    /\ pc \in {"rows", "done"} =>
         \A k \in 0..(y - 1) : TagAt(raw, k * (1 + rb)) \in 0..4
    /\ (pc = "raised" /\ idx < Len(raw) /\ TagAt(raw, idx) \notin 0..4) =>
         err = "UnsupportedFeatureError"

(* C4: decode is all or nothing: a grid is returned only if the stream is
   exactly H * (1 + rowStrideBytes) long, so no returned row was built from
   fewer than rowStrideBytes stream bytes. *)
C4_AllOrNothing ==
    (pc = "done" /\ W > 0 /\ H > 0) =>
        /\ Len(raw) = H * (1 + Stride(W, bitDepth))
        /\ \A r \in 1..Len(pixels) : Len(pixels[r]) = W

(* the Sub recurrence of the claim: output[c] = input[c] + output[c-1]
   mod 256, output[-1] = 0; c is 0-based *)
RECURSIVE RefSubAt(_, _)
RefSubAt(in, c) ==
    IF c < 0 THEN 0 ELSE (in[c + 1] + RefSubAt(in, c - 1)) % 256

(* C5: a row with tag 1 (Sub, bpp = 1) is reconstructed as
   output[c] = (input[c] + output[c-1]) mod 256 with output[-1] = 0, column 0
   unchanged; sums above 255 wrap, and every byte stays in 0..255. *)
C5_SubWraps ==
    [][ (RowDone /\ TagAt(raw, idx) = 1) =>
          LET in == RowAt(raw, idx, rb)
          IN  /\ Len(prev') = Len(in)
              /\ \A c \in 0..(Len(in) - 1) :
                   /\ prev'[c + 1] = RefSubAt(in, c)
                   /\ prev'[c + 1] \in 0..255
              /\ Len(in) > 0 => prev'[1] = in[1] ]_vars

(* a Sub row of two bytes whose sum passed 255 was reconstructed *)
C5_Witness ==
    /\ pc = "rows" /\ y >= 1 /\ rb >= 2
    /\ LastTag = 1
    /\ LastInput[1] + LastInput[2] > 255
    /\ prev[2] = LastInput[1] + LastInput[2] - 256

(* C6: a row with tag 2 (Up) is reconstructed as
   output[c] = (input[c] + previousRow[c]) mod 256, where previousRow is the
   reconstructed row of the preceding row whatever its tag (the bytes that
   row's pixels were unpacked from) and rb zero bytes for row 0. *)
C6_UpUsesPreviousRow ==
    [][ /\ (pc' = "rows" /\ y' = 0) => prev' = Zeros(rb')
        /\ RowDone => pixels'[y'] = Clip(Unpack(prev'), W)
        /\ (RowDone /\ TagAt(raw, idx) = 2) =>
             LET in == RowAt(raw, idx, rb)
             IN  /\ Len(prev) = rb /\ Len(in) = rb /\ Len(prev') = rb
                 /\ \A c \in 1..rb : prev'[c] = (in[c] + prev[c]) % 256 ]_vars

(* an Up row was reconstructed over a preceding row that itself was
   changed by its Sub filter, with a sum that wrapped *)
C6_Witness ==
    /\ pc = "rows" /\ y = 2 /\ rb >= 2
    /\ LastTag = 2
    /\ TagAt(raw, 0) = 1
    /\ LET first == RowAt(raw, 0, rb)
           above == (first[1] + first[2]) % 256
       IN  /\ above # first[2]
           /\ LastInput[2] + above > 255
           /\ prev[2] = LastInput[2] + above - 256

(* the reference inverse filters of the specification, section 4.4;
   c is 0-based, ab is the previous reconstructed row *)
Abs(n) == IF n < 0 THEN -n ELSE n

PaethPredictor(a, b, c) ==
    LET p  == a + b - c
        pa == Abs(p - a)
        pb == Abs(p - b)
        pc2 == Abs(p - c)
    IN  IF pa <= pb /\ pa <= pc2 THEN a ELSE IF pb <= pc2 THEN b ELSE c

RECURSIVE RefAverageAt(_, _, _)
RefAverageAt(in, ab, c) ==
    IF c < 0 THEN 0
    ELSE (in[c + 1] + ((RefAverageAt(in, ab, c - 1) + ab[c + 1]) \div 2)) % 256

RECURSIVE RefPaethAt(_, _, _)
RefPaethAt(in, ab, c) ==
    IF c < 0 THEN 0
    ELSE (in[c + 1] + PaethPredictor(RefPaethAt(in, ab, c - 1), ab[c + 1],
                                     IF c = 0 THEN 0 ELSE ab[c])) % 256

(* C7: rows with tag 3 (Average) and tag 4 (Paeth) are reconstructed by
   their inverse filters, missing neighbours taken as 0: the reconstructed
   row equals the reference defilter of the input row and previous row. *)
C7_AveragePaeth ==
    [][ (RowDone /\ TagAt(raw, idx) \in {3, 4} /\ Len(RowAt(raw, idx, rb)) = rb
           /\ Len(prev) = rb) =>
          LET in == RowAt(raw, idx, rb)
          IN  /\ Len(prev') = rb
              /\ \A c \in 0..(rb - 1) :
                   prev'[c + 1] = IF TagAt(raw, idx) = 3
                                  THEN RefAverageAt(in, prev, c)
                                  ELSE RefPaethAt(in, prev, c) ]_vars

(* pixel k (0-based) of a row packed d bits per pixel, most significant
   bits first: bits [8 - (k mod (8/d))*d - d, 8 - (k mod (8/d))*d) of byte
   k div (8/d) *)
FieldAt(row, k, d) ==
    LET per == 8 \div d
        lo  == 8 - (k % per) * d - d
    IN  (row[(k \div per) + 1] \div Pow2(lo)) % Pow2(d)

(* C8: for the header's bit depth d in {1,2,4,8} and width W every
   reconstructed row has ceil(W*d/8) bytes and is unpacked most significant
   bits first into exactly W indices, pixel k being the d-bit field of byte
   k div (8/d); the 2x2 depth-8 scenario yields [[10,20],[5,10]]. Stated
   for streams of the length the header asks for. *)
C8_UnpackByDepth ==
    /\ (pc \in {"rows", "done"} /\ y >= 1 /\ W > 0 /\ bitDepth \in BitDepths
          /\ Len(raw) = H * (1 + Stride(W, bitDepth))) =>
         /\ Len(prev) = Stride(W, bitDepth)
         /\ Len(pixels[y]) = W
         /\ \A k \in 0..(W - 1) : pixels[y][k + 1] = FieldAt(prev, k, bitDepth)
    /\ (pc = "done" /\ W = 2 /\ H = 2 /\ bitDepth = 8 /\ raw = ScenarioRaw) =>
         pixels = << << 10, 20 >>, << 5, 10 >> >>

-----------------------------------------------------------------------------
(* The container: lines 38-48 *)

(* struct.unpack('>I', four bytes): big-endian unsigned 32 bit *)
BE32(b) == ((b[1] * 256 + b[2]) * 256 + b[3]) * 256 + b[4]

(* the chunk types load_png looks up, as the bytes of their ASCII names *)
IHDR == << 73, 72, 68, 82 >>
IDAT == << 73, 68, 65, 84 >>

(* str.decode('ascii') accepts the bytes 0..127 only *)
IsAscii(b) == \A k \in 1..Len(b) : b[k] < 128

(* chunks is a Python dict: its entries in insertion order, each a key and
   the list appended to under that key *)
HasKey(d, key) == \E k \in 1..Len(d) : d[k].key = key
Get(d, key)    == d[CHOOSE k \in 1..Len(d) : d[k].key = key].list

(* a dict that keeps only the latest payload of a type *)
RecordLast(d, ct, p) ==
    IF \E k \in 1..Len(d) : d[k].key = ct
    THEN [k \in 1..Len(d) |->
            IF d[k].key = ct THEN [d[k] EXCEPT !.list = << p >>] ELSE d[k]]
    ELSE Append(d, [key |-> ct, list |-> << p >>])

(* lines 44-45: if ct not in chunks: chunks[ct] = []; chunks[ct].append(p) *)
Record(d, ct, p) ==
    IF HasKey(d, ct)
    THEN [k \in 1..Len(d) |->
            IF d[k].key = ct THEN [d[k] EXCEPT !.list = Append(@, p)] ELSE d[k]]
    ELSE Append(d, [key |-> ct, list |-> << p >>])

(* line 42: the declared length at the cursor *)
DeclaredLen(buf, at) == BE32(Slice(buf, at, at + 4))

(* line 43: the type field at the cursor *)
TypeAt(buf, at) == Slice(buf, at + 4, at + 8)

(* line 45: data[i+8:i+8+l] *)
PayloadAt(buf, at, l) == Slice(buf, at + 8, at + 8 + l)

(* a cursor that steps over length, type and payload but not the checksum *)
AdvanceNoCrc(at, l) == at + 8 + l

(* line 46: i += 12 + l *)
Advance(at, l) == at + 12 + l

(* b''.join(list of byte strings) *)
RECURSIVE Join(_)
Join(ps) == IF ps = << >> THEN << >> ELSE Head(ps) \o Join(Tail(ps))

(* line 41: while i < len(data) *)
InLoop == pc = "chunks" /\ i < Len(data)

(* lines 42-46, one pass of the while loop *)
ChunkStep ==
    /\ InLoop
    /\ Len(Slice(data, i, i + 4)) = 4
    /\ IsAscii(TypeAt(data, i))
    /\ LET l == DeclaredLen(data, i)
       IN  /\ chunks' = Record(chunks, TypeAt(data, i), PayloadAt(data, i, l))
           /\ i' = Advance(i, l)
    /\ UNCHANGED << layout, data, compressed, W, H, bitDepth, raw, rowVars, pc, err >>

(* line 42: struct.unpack on fewer than four bytes raises struct.error;
   line 43: a type byte above 127 raises UnicodeDecodeError *)
ChunkRaise ==
    /\ InLoop
    /\ \/ /\ Len(Slice(data, i, i + 4)) < 4
          /\ err' = "struct.error"
       \/ /\ Len(Slice(data, i, i + 4)) = 4
          /\ ~ IsAscii(TypeAt(data, i))
          /\ err' = "UnicodeDecodeError"
    /\ pc' = "raised"
    /\ UNCHANGED << chunkVars, W, H, bitDepth, raw, rowVars >>

(* line 41: the loop condition fails *)
ChunkExit ==
    /\ pc = "chunks"
    /\ i >= Len(data)
    /\ pc' = "header"
    /\ UNCHANGED << chunkVars, W, H, bitDepth, raw, rowVars, err >>

(* line 47: W, H = struct.unpack('>II', chunks['IHDR'][0][:8]) *)
ReadHeader ==
    /\ pc = "header"
    /\ HasKey(chunks, IHDR)
    /\ LET hd == Get(chunks, IHDR)[1]
       IN  /\ Len(hd) >= 8
           /\ W' = BE32(Slice(hd, 0, 4))
           /\ H' = BE32(Slice(hd, 4, 8))
           /\ bitDepth' = IF Len(hd) >= 9 THEN hd[9] ELSE 0
    /\ pc' = "join"
    /\ UNCHANGED << chunkVars, raw, rowVars, err >>

(* line 47: no IHDR key raises KeyError; fewer than 8 bytes, struct.error *)
HeaderRaise ==
    /\ pc = "header"
    /\ \/ /\ ~ HasKey(chunks, IHDR)
          /\ err' = "KeyError"
       \/ /\ HasKey(chunks, IHDR)
          /\ Len(Get(chunks, IHDR)[1]) < 8
          /\ err' = "struct.error"
    /\ pc' = "raised"
    /\ UNCHANGED << chunkVars, W, H, bitDepth, raw, rowVars >>

(* line 48: the argument of zlib.decompress, b''.join(chunks['IDAT']) *)
JoinData ==
    /\ pc = "join"
    /\ HasKey(chunks, IDAT)
    /\ compressed' = Join(Get(chunks, IDAT))
    /\ pc' = "inflate"
    /\ UNCHANGED << layout, data, i, chunks, W, H, bitDepth, raw, rowVars, err >>

(* line 48: no IDAT key raises KeyError *)
JoinRaise ==
    /\ pc = "join"
    /\ ~ HasKey(chunks, IDAT)
    /\ pc' = "raised"
    /\ err' = "KeyError"
    /\ UNCHANGED << chunkVars, W, H, bitDepth, raw, rowVars >>

NextChunks ==
    \/ ChunkStep \/ ChunkRaise \/ ChunkExit
    \/ ReadHeader \/ HeaderRaise
    \/ JoinData \/ JoinRaise

-----------------------------------------------------------------------------
(* Input files of the container stage *)

Signature == << 137, 80, 78, 71, 13, 10, 26, 10 >>
IEND      == << 73, 69, 78, 68 >>
TEXT      == << 116, 69, 88, 116 >>
BadType   == << 200, 68, 65, 84 >>
Crc       == << 170, 187, 204, 221 >>

(* a 13-byte header payload: width 259, height 1, depth 8, colour type 3;
   and one too short to hold width and height *)
HeaderPayloads == { << 0, 0, 1, 3, 0, 0, 0, 1, 8, 3, 0, 0, 0 >>, << 0, 0, 0, 2 >> }
DataPayloads   == { << >>, << 7 >>, << 8, 9 >> }

ChunkChoices ==
    { [type |-> IHDR, payload |-> p] : p \in HeaderPayloads }
      \cup { [type |-> IDAT, payload |-> p] : p \in DataPayloads }
      \cup { [type |-> TEXT, payload |-> << 5 >>],
             [type |-> IEND, payload |-> << >>],
             [type |-> BadType, payload |-> << >>] }

(* the four bytes of a length below 2^32, most significant first *)
ToBE32(n) == << (n \div 16777216) % 256, (n \div 65536) % 256,
                (n \div 256) % 256, n % 256 >>

(* one chunk on disk: length, type, payload, checksum *)
ChunkBytes(c) == ToBE32(Len(c.payload)) \o c.type \o c.payload \o Crc

RECURSIVE ChunksBytes(_)
ChunksBytes(cs) ==
    IF cs = << >> THEN << >> ELSE ChunkBytes(Head(cs)) \o ChunksBytes(Tail(cs))

FileBytes(cs) == Signature \o ChunksBytes(cs)

(* The state at line 41 on first entry: data is a file written from layout,
   possibly cut short at its end. *)
InitChunks ==
    /\ \E n \in 0..MaxChunks : layout \in [1..n -> ChunkChoices]
    /\ LET file == FileBytes(layout)
       IN  \E cut \in 0..MaxTrunc : data = Slice(file, 0, Max(Len(file) - cut, 0))
    /\ i = 8
    /\ chunks = << >>
    /\ compressed = << >>
    /\ W = 0 /\ H = 0 /\ bitDepth = 0 /\ raw = << >>
    /\ rb = 0 /\ pixels = << >> /\ prev = << >> /\ idx = 0 /\ y = 0
    /\ pc = "chunks"
    /\ err = "none"

SpecChunks == InitChunks /\ [][NextChunks]_vars

-----------------------------------------------------------------------------
(* Properties of the container stage, checked under SpecChunks *)

(* the passes of the while loop completed so far: each appends one payload *)
RECURSIVE Iterations(_)
Iterations(d) ==
    IF d = << >> THEN 0 ELSE Len(Head(d).list) + Iterations(Tail(d))

(* C3: when the chunk at the cursor declares a length above the bytes that
   remain after its 8-byte prefix, the decode fails with TruncatedInputError:
   no payload is recorded for the chunk and no later stage runs. *)
C3_TruncatedChunkFails ==
    [][ (InLoop /\ i + 8 <= Len(data)
           /\ DeclaredLen(data, i) > Len(data) - (i + 8)) =>
          (pc' = "raised" /\ err' = "TruncatedInputError" /\ chunks' = chunks)
      ]_vars

(* the payload bytes of the data chunks of a file written from the chunks
   cs, in file order, as far as they lie within the first n bytes of the
   file; at is the offset of the first chunk of cs *)
RECURSIVE DataBytes(_, _, _)
DataBytes(cs, at, n) ==
    IF cs = << >> THEN << >>
    ELSE LET c == Head(cs)
             here == IF c.type = IDAT
                     THEN Slice(c.payload, 0, Max(n - (at + 8), 0))
                     ELSE << >>
         IN  here \o DataBytes(Tail(cs), at + 12 + Len(c.payload), n)

(* C9: the stream handed to the decompressor is the concatenation of the
   payloads of all data chunks in file order, whatever chunks of other
   types lie between them; nothing else enters it and no data payload is
   dropped, duplicated or reordered. *)
C9_StreamIsDataInOrder ==
    pc = "inflate" => compressed = DataBytes(layout, 8, Len(data))

(* two non-empty data chunks with a chunk of another type between them
   were joined *)
C9_Witness ==
    /\ pc = "inflate"
    /\ Len(layout) = 3 /\ Len(data) = Len(FileBytes(layout))
    /\ layout[1].type = IDAT /\ layout[1].payload = << 8, 9 >>
    /\ layout[2].type # IDAT
    /\ layout[3].type = IDAT /\ layout[3].payload = << 7 >>
    /\ compressed = << 8, 9, 7 >>

(* C10 as stated: the cursor starts at 8 and grows by at least 12 per pass,
   the passes number at most ceil((len(data) - 8) / 12), and the loop ends as
   soon as the cursor reaches the buffer length or the end-marker chunk has
   been seen. *)
C10_StopsAtEndMarker ==
    /\ i >= 8 + 12 * Iterations(chunks)
    /\ Iterations(chunks) <= Max(CeilDiv(Len(data) - 8, 12), 0)
    /\ InLoop => ~ HasKey(chunks, IEND)

(* C10 as amended: the loop terminates on every buffer: the cursor starts at
   8, every completed pass adds at least 12 to it, the loop is left only
   with the cursor at or past the buffer length (or by an exception), and
   the passes number at most ceil((len(data) - 8) / 12). An end-marker chunk
   does not end the loop. *)
C10_LoopBounded ==
    /\ [](/\ i >= 8 + 12 * Iterations(chunks)
          /\ Iterations(chunks) <= Max(CeilDiv(Len(data) - 8, 12), 0)
          /\ pc \in {"header", "join", "inflate"} => i >= Len(data))
    /\ [][ /\ chunks' # chunks =>
                (i' >= i + 12 /\ Iterations(chunks') = Iterations(chunks) + 1)
           /\ (pc = "chunks" /\ pc' # "chunks") =>
                (chunks' = chunks /\ i' = i) ]_vars

(* the loop ran on after the end marker and then ended at the buffer end *)
C10_Witness ==
    /\ pc = "header"
    /\ Len(layout) = 3 /\ layout[2].type = IEND
    /\ Iterations(chunks) = 3
    /\ i = Len(data)

====
